---- MODULE Spec2Model ----
(***************************************************************************)
(* Exchange-rate resolution and currency conversion                        *)
(* (src/api/utils/currency_conversion.py) over the exchange_rates table    *)
(* (src/api/models/database.py).                                           *)
(*                                                                         *)
(* Dates are day numbers; day 0 is a Monday, so d % 7 is Python's          *)
(* date.weekday().  Rates and amounts are integers; a quotient is kept as  *)
(* a reduced fraction <<numerator, denominator>>.  An Optional value is a  *)
(* sequence of length 0 (None) or 1.                                       *)
(*                                                                         *)
(* Import normalisation (src/api/utils/data_import.py): the row loop of    *)
(* validate_and_normalize_data (ImportSpec) and its two parsers,           *)
(* _parse_date and parse_amount, on their own (ParseSpec).                 *)
(***************************************************************************)
EXTENDS Integers, Sequences, FiniteSets, TLC

\* ---------------------------------------------------------------- bounds
MaxDay == 8
MaxCalls == 2

Days == 0..MaxDay
\* requested dates: late enough that five business days back stay in Days
TargetDates == (MaxDay - 1)..MaxDay
\* two callers, so that two calls can be in flight at once
Procs == {"p1", "p2"}
Amounts == {0, 90}
\* amount_tl of a call: read only at line 178, so drawn where it is read
AmountsOf(o) == IF o = "convert" THEN Amounts ELSE {0}

None == <<>>
Some(x) == <<x>>
Val(o) == o[1]

\* ------------------------------------------------------ remote authority
\* The ForexBuying figure the authority publishes for a day: stable per day.
\* Day 8 publishes 0 and day 9 a negative figure; every other day 30 + d.
TcmbForexBuying(d) ==
  IF d = 8 THEN 0 ELSE IF d = 9 THEN 0 - 39 ELSE 30 + d

\* What one GET can end in (lines 41-68).
Responses == {"OK", "RequestException", "ParseError", "NoUSD", "ValueError"}

\* get_exchange_rate_from_tcmb's return value for a response (lines 42-68)
FetchResult(resp, d) ==
  IF resp = "OK" THEN Some(TcmbForexBuying(d)) ELSE None

CacheLookup_skip(c, d) == None

\* lines 34-35: the entry of exchange_rate_cache under the date's key, if any
CacheLookup(c, d) == c[d]

\* ------------------------------------------------------------ pure parts
RECURSIVE PrevBusinessFrom(_)
PrevBusinessFrom(d) == IF d % 7 >= 5 THEN PrevBusinessFrom(d - 1) ELSE d

get_previous_business_day_anyday(from_date) == from_date - 1

\* get_previous_business_day (lines 89-106)
get_previous_business_day(from_date) == PrevBusinessFrom(from_date - 1)

RECURSIVE Gcd(_, _)
Gcd(a, b) == IF b = 0 THEN a ELSE Gcd(b, a % b)

Abs(x) == IF x < 0 THEN 0 - x ELSE x

\* a fraction n/d (d # 0) in lowest terms with a positive denominator
Reduce(n, d) ==
  LET g == Gcd(Abs(n), Abs(d))
      s == IF d < 0 THEN 0 - 1 ELSE 1
  IN <<(s * n) \div g, (s * d) \div g>>

Divide_mul(amount, rate) == Reduce(amount * rate, 1)

\* amount_tl / rate (line 178), rate # 0
Divide(amount, rate) == Reduce(amount, rate)

\* converted_amount * rate_used, as the caller re-derives the amount
Times(frac, rate) == Reduce(frac[1] * rate, frac[2])

\* -------------------------------------------------------------- the store
\* db_session.query(ExchangeRate).filter(date == target_date).first()
QueryFirst_none(st, d) == None

QueryFirst(st, d) ==
  IF \E rec \in st : rec.date = d
  THEN Some(CHOOSE rec \in st : rec.date = d)
  ELSE None

NewRecord(st, d, r) == [id |-> Cardinality(st) + 1, date |-> d, usd_to_tl |-> r]

Commit_nounique(st, d, r) ==
  [ok |-> TRUE, store |-> st \cup {NewRecord(st, d, r)}]

Commit_upsert(st, d, r) ==
  [ok |-> TRUE,
   store |-> {rec \in st : rec.date # d} \cup {NewRecord(st, d, r)}]

Commit_lost(st, d, r) == [ok |-> TRUE, store |-> st]

\* db_session.add(ExchangeRate(...)); db_session.commit() (lines 154-158)
\* against the unique date column (database.py line 70): a second row for
\* the date is rejected with IntegrityError and the table is left as it was.
Commit(st, d, r) ==
  IF \E rec \in st : rec.date = d
  THEN [ok |-> FALSE, store |-> st]
  ELSE [ok |-> TRUE, store |-> st \cup {NewRecord(st, d, r)}]

DefaultRate == 30

Fallback_lastdate(rate, target_date, current_date) ==
  IF rate = None THEN <<DefaultRate, current_date>>
  ELSE <<Val(rate), current_date>>

\* lines 145-148: the default rate and the original target date
Fallback(rate, target_date, current_date) ==
  IF rate = None THEN <<DefaultRate, target_date>>
  ELSE <<Val(rate), current_date>>

ShouldPersist_inverted(db_session, target_date, current_date) ==
  db_session /\ target_date # current_date

\* line 151
ShouldPersist(db_session, target_date, current_date) ==
  db_session /\ target_date = current_date

MaxAttempts == 5

\* ======================================================================
\* Import normalisation (src/api/utils/data_import.py).
\* A string is a sequence of one-character strings.  A calendar date is
\* <<year, month, day>>.  A float is a reduced fraction <<n, d>> with d > 0;
\* NaN is <<0, 0>>.
\* ======================================================================
DigitChars == <<"0", "1", "2", "3", "4", "5", "6", "7", "8", "9">>
IsDigit(c) == \E i \in 1..10 : DigitChars[i] = c
DigitVal(c) == (CHOOSE i \in 1..10 : DigitChars[i] = c) - 1

\* str.isdigit() on the characters used here
AllDigits(s) == Len(s) > 0 /\ \A i \in 1..Len(s) : IsDigit(s[i])

RECURSIVE NatOf(_)
NatOf(s) ==
  IF s = <<>> THEN 0
  ELSE NatOf(SubSeq(s, 1, Len(s) - 1)) * 10 + DigitVal(s[Len(s)])

RECURSIVE Pow10(_)
Pow10(k) == IF k = 0 THEN 1 ELSE 10 * Pow10(k - 1)

Has(s, c) == \E i \in 1..Len(s) : s[i] = c
FirstIndex(s, c) == CHOOSE i \in 1..Len(s) : s[i] = c /\ \A j \in 1..(i - 1) : s[j] # c

\* str.split(sep)
RECURSIVE Split(_, _)
Split(s, sep) ==
  IF ~Has(s, sep) THEN <<s>>
  ELSE LET i == FirstIndex(s, sep)
       IN <<SubSeq(s, 1, i - 1)>> \o Split(SubSeq(s, i + 1, Len(s)), sep)

\* str.replace(c, '')
RECURSIVE Remove(_, _)
Remove(s, c) ==
  IF s = <<>> THEN <<>>
  ELSE (IF s[1] = c THEN <<>> ELSE <<s[1]>>) \o Remove(Tail(s), c)

\* str.replace(c, '', 1)
RemoveFirst(s, c) ==
  IF ~Has(s, c) THEN s
  ELSE LET i == FirstIndex(s, c)
       IN SubSeq(s, 1, i - 1) \o SubSeq(s, i + 1, Len(s))

\* str.replace(a, b)
Replace(s, a, b) == [i \in 1..Len(s) |-> IF s[i] = a THEN b ELSE s[i]]

RECURSIVE LStrip(_)
LStrip(s) == IF s # <<>> /\ s[1] = " " THEN LStrip(Tail(s)) ELSE s
RECURSIVE RStrip(_)
RStrip(s) ==
  IF s # <<>> /\ s[Len(s)] = " " THEN RStrip(SubSeq(s, 1, Len(s) - 1)) ELSE s
\* str.strip()
Strip(s) == RStrip(LStrip(s))

UpperChars == <<"A", "B", "D", "E", "G", "N", "O", "R", "S", "T", "U", "Y">>
LowerChars == <<"a", "b", "d", "e", "g", "n", "o", "r", "s", "t", "u", "y">>
LowerChar(c) ==
  IF \E i \in 1..Len(UpperChars) : UpperChars[i] = c
  THEN LowerChars[CHOOSE i \in 1..Len(UpperChars) : UpperChars[i] = c]
  ELSE c
UpperChar(c) ==
  IF \E i \in 1..Len(LowerChars) : LowerChars[i] = c
  THEN UpperChars[CHOOSE i \in 1..Len(LowerChars) : LowerChars[i] = c]
  ELSE c
\* str.lower(), str.upper()
Lower(s) == [i \in 1..Len(s) |-> LowerChar(s[i])]
Upper(s) == [i \in 1..Len(s) |-> UpperChar(s[i])]

\* ------------------------------------------------------------- calendar
IsLeap(y) == (y % 4 = 0 /\ y % 100 # 0) \/ y % 400 = 0
DaysInMonth(y, m) ==
  IF m = 2 THEN (IF IsLeap(y) THEN 29 ELSE 28)
  ELSE IF m \in {4, 6, 9, 11} THEN 30 ELSE 31
ValidDate_anyday(y, m, d) ==
  /\ y \in 1..9999 /\ m \in 1..12 /\ d >= 1 /\ d <= 31

\* datetime(year, month, day) accepts the triple
ValidDate(y, m, d) ==
  /\ y \in 1..9999 /\ m \in 1..12 /\ d >= 1 /\ d <= DaysInMonth(y, m)

\* day number of a date (proleptic Gregorian, day 0 = 1970-01-01)
DaysFromCivil(y, m, d) ==
  LET yy == IF m <= 2 THEN y - 1 ELSE y
      era == yy \div 400
      yoe == yy - era * 400
      mp == IF m > 2 THEN m - 3 ELSE m + 9
      doy == (153 * mp + 2) \div 5 + d - 1
      doe == yoe * 365 + yoe \div 4 - yoe \div 100 + doy
  IN era * 146097 + doe - 719468

\* the date of a day number
CivilFromDays(z0) ==
  LET z == z0 + 719468
      era == z \div 146097
      doe == z - era * 146097
      yoe == (doe - doe \div 1460 + doe \div 36524 - doe \div 146096) \div 365
      doy == doe - (365 * yoe + yoe \div 4 - yoe \div 100)
      mp == (5 * doy + 2) \div 153
      d == doy - (153 * mp + 2) \div 5 + 1
      m == IF mp < 10 THEN mp + 3 ELSE mp - 9
      y == yoe + era * 400 + (IF m <= 2 THEN 1 ELSE 0)
  IN <<y, m, d>>

\* base_date = datetime(1899, 12, 30) (line 53)
ExcelEpoch == DaysFromCivil(1899, 12, 30)

\* base_date + pd.Timedelta(days=delta_days), .date() (lines 55-57)
ExcelDate(delta_days) == CivilFromDays(ExcelEpoch + delta_days)

\* ----------------------------------------------------------- raw values
\* An untyped cell value: None, a str, an int, float NaN (what pandas gives
\* for an empty cell) or a datetime-like object (has a .date() method).
RNone == [t |-> "none", s |-> <<>>, n |-> 0, d |-> <<0, 0, 0>>]
RStr(chars) == [t |-> "str", s |-> chars, n |-> 0, d |-> <<0, 0, 0>>]
RNum(k) == [t |-> "num", s |-> <<>>, n |-> k, d |-> <<0, 0, 0>>]
RNaN == [t |-> "nan", s |-> <<>>, n |-> 0, d |-> <<0, 0, 0>>]
RDatetime(date) == [t |-> "datetime", s |-> <<>>, n |-> 0, d |-> date]

NaN == <<0, 0>>
Zero == <<0, 1>>

\* ---------------------------------------------------------- _parse_date
\* line 41: None, or str(value).lower() in ['nan', 'none', '']
IsEmptyToken_noneonly(raw) == raw.t = "none"

IsEmptyToken(raw) ==
  \/ raw.t = "none"
  \/ raw.t = "nan"
  \/ /\ raw.t = "str"
     /\ Lower(raw.s) \in {<<"n", "a", "n">>, <<"n", "o", "n", "e">>, <<>>}

\* the text between two separators matches the directive's pattern
\* (_strptime: %d 3[0-1]|[1-2]\d|0[1-9]|[1-9]| [1-9], %m 1[0-2]|0[1-9]|[1-9],
\* %Y \d\d\d\d, %y \d\d)
FieldOk(kind, run) ==
  CASE kind = "d" ->
         \/ Len(run) = 1 /\ IsDigit(run[1]) /\ run[1] # "0"
         \/ Len(run) = 2 /\ AllDigits(run) /\ NatOf(run) \in 1..31
         \/ Len(run) = 2 /\ run[1] = " " /\ IsDigit(run[2]) /\ run[2] # "0"
    [] kind = "m" ->
         \/ Len(run) = 1 /\ IsDigit(run[1]) /\ run[1] # "0"
         \/ Len(run) = 2 /\ AllDigits(run) /\ NatOf(run) \in 1..12
    [] kind = "Y" -> Len(run) = 4 /\ AllDigits(run)
    [] kind = "y" -> Len(run) = 2 /\ AllDigits(run)

FieldVal(kind, run) ==
  LET v == NatOf(LStrip(run))
  IN IF kind = "y" THEN (IF v < 69 THEN 2000 + v ELSE 1900 + v) ELSE v

Formats_monthfirst ==
  << [sep |-> "/", kinds |-> <<"m", "d", "Y">>],
     [sep |-> ".", kinds |-> <<"m", "d", "Y">>],
     [sep |-> "-", kinds |-> <<"m", "d", "Y">>],
     [sep |-> "/", kinds |-> <<"m", "d", "y">>],
     [sep |-> ".", kinds |-> <<"m", "d", "y">>],
     [sep |-> "-", kinds |-> <<"Y", "m", "d">>],
     [sep |-> "/", kinds |-> <<"Y", "m", "d">>] >>

\* lines 77-85, in order
Formats ==
  << [sep |-> "/", kinds |-> <<"d", "m", "Y">>],
     [sep |-> ".", kinds |-> <<"d", "m", "Y">>],
     [sep |-> "-", kinds |-> <<"d", "m", "Y">>],
     [sep |-> "/", kinds |-> <<"d", "m", "y">>],
     [sep |-> ".", kinds |-> <<"d", "m", "y">>],
     [sep |-> "-", kinds |-> <<"Y", "m", "d">>],
     [sep |-> "/", kinds |-> <<"Y", "m", "d">>] >>

\* datetime.strptime(date_str, fmt).date(), None for ValueError (lines 88-91)
Strptime(ds, fmt) ==
  LET parts == Split(ds, fmt.sep)
      at(kinds) == CHOOSE i \in 1..3 : fmt.kinds[i] \in kinds
  IN IF Len(parts) = 3 /\ \A i \in 1..3 : FieldOk(fmt.kinds[i], parts[i])
     THEN LET yi == at({"Y", "y"})
              y == FieldVal(fmt.kinds[yi], parts[yi])
              m == FieldVal("m", parts[at({"m"})])
              d == FieldVal("d", parts[at({"d"})])
          IN IF ValidDate(y, m, d) THEN Some(<<y, m, d>>) ELSE None
     ELSE None

\* lines 87-94: the first format that parses wins
RECURSIVE TryFormats(_, _, _)
TryFormats(ds, fmts, i) ==
  IF i > Len(fmts) THEN None
  ELSE LET r == Strptime(ds, fmts[i])
       IN IF r # None THEN r ELSE TryFormats(ds, fmts, i + 1)

\* int(part) succeeds (line 70), for the characters used here
IntOk(part) == AllDigits(Strip(part))

\* lines 68-74: ten characters with a hyphen, read as year-month-day
IsoDirect(ds) ==
  IF Has(ds, "-") /\ Len(ds) = 10
  THEN LET parts == Split(ds, "-")
       IN IF Len(parts) = 3 /\ \A i \in 1..3 : IntOk(parts[i])
          THEN LET y == NatOf(Strip(parts[1]))
                   m == NatOf(Strip(parts[2]))
                   d == NatOf(Strip(parts[3]))
               IN IF y >= 1900 /\ y <= 2100 /\ m >= 1 /\ m <= 12
                     /\ d >= 1 /\ d <= 31 /\ ValidDate(y, m, d)
                  THEN Some(<<y, m, d>>) ELSE None
          ELSE None
  ELSE None

\* line 50: an int, or a str that is all digits once its first '.' is removed
IsNumericDate(raw) ==
  \/ raw.t = "num"
  \/ raw.t = "str" /\ AllDigits(RemoveFirst(raw.s, "."))

\* int(float(date_value)) (lines 51-54)
SerialOf(raw) ==
  IF raw.t = "num" THEN raw.n ELSE NatOf(Split(raw.s, ".")[1])

\* lines 62-94
ParseDateString(chars) ==
  LET ds == Strip(chars)
  IN IF ds = <<>> THEN None
     ELSE LET iso == IsoDirect(ds)
          IN IF iso # None THEN iso ELSE TryFormats(ds, Formats, 1)

\* _parse_date (lines 38-94); serial numbers are kept within the range
\* pd.Timedelta and the result date can hold
parse_date(raw) ==
  IF IsEmptyToken(raw) THEN None
  ELSE IF raw.t = "datetime" THEN Some(raw.d)
  ELSE IF IsNumericDate(raw) THEN Some(ExcelDate(SerialOf(raw)))
  ELSE ParseDateString(raw.s)

\* ---------------------------------------------------------- parse_amount
\* the digits-and-point part of a float literal
MantissaOk(m) ==
  LET parts == Split(m, ".")
  IN /\ Len(parts) \in {1, 2}
     /\ \A i \in 1..Len(parts) : parts[i] = <<>> \/ AllDigits(parts[i])
     /\ \E i \in 1..Len(parts) : parts[i] # <<>>

MantissaVal(m) ==
  LET parts == Split(m, ".")
      ip == parts[1]
      fp == IF Len(parts) = 2 THEN parts[2] ELSE <<>>
  IN <<NatOf(ip) * Pow10(Len(fp)) + NatOf(fp), Pow10(Len(fp))>>

ExponentOk(e) ==
  AllDigits(IF e # <<>> /\ e[1] = "-" THEN Tail(e) ELSE e)

ExponentVal(e) ==
  IF e # <<>> /\ e[1] = "-" THEN 0 - NatOf(Tail(e)) ELSE NatOf(e)

\* float(text) for the characters used here: None for ValueError
FloatOf(text) ==
  LET t == Lower(Strip(text))
      neg == t # <<>> /\ t[1] = "-"
      body == IF neg THEN Tail(t) ELSE t
      sgn == IF neg THEN 0 - 1 ELSE 1
  IN IF body = <<"n", "a", "n">> THEN Some(NaN)
     ELSE LET parts == Split(body, "e")
          IN IF Len(parts) = 1 /\ MantissaOk(parts[1])
             THEN LET mv == MantissaVal(parts[1])
                  IN Some(Reduce(sgn * mv[1], mv[2]))
             ELSE IF Len(parts) = 2 /\ MantissaOk(parts[1]) /\ ExponentOk(parts[2])
             THEN LET mv == MantissaVal(parts[1])
                      ex == ExponentVal(parts[2])
                  IN Some(IF ex >= 0
                          THEN Reduce(sgn * mv[1] * Pow10(ex), mv[2])
                          ELSE Reduce(sgn * mv[1], mv[2] * Pow10(0 - ex)))
             ELSE None

parse_amount_keepdots(val) ==
  IF val.t = "none" THEN Zero
  ELSE IF val.t = "str"
  THEN LET f == FloatOf(Replace(val.s, ",", "."))
       IN IF f = None THEN Zero ELSE Val(f)
  ELSE IF val.t = "num" THEN <<val.n, 1>>
  ELSE IF val.t = "nan" THEN NaN
  ELSE Zero

\* parse_amount (lines 96-108)
parse_amount(val) ==
  IF val.t = "none" THEN Zero
  ELSE IF val.t = "str"
  THEN LET f == FloatOf(Replace(Remove(val.s, "."), ",", "."))
       IN IF f = None THEN Zero ELSE Val(f)
  ELSE IF val.t = "num" THEN <<val.n, 1>>
  ELSE IF val.t = "nan" THEN NaN
  ELSE Zero

\* ------------------------------------------------------------- the rows
\* A row maps column names to cell values; only the columns the normaliser
\* reads are kept.  A field is None when the column is absent from the row.
\*   tarih      'Tarih'
\*   amt_sigma  the first alias of paid_amount (line 20)
\*   amt        'paid_amount'
\*   cur_tr     the first alias of paid_currency (line 21)
\*   cur        'paid_currency'
MkRow(t, a1, a2, c1, c2) ==
  [tarih |-> t, amt_sigma |-> a1, amt |-> a2, cur_tr |-> c1, cur |-> c2]

\* lines 133-136: the value under the first alias the row has, if any
RECURSIVE FirstPresent(_)
FirstPresent(cells) ==
  IF cells = <<>> THEN None
  ELSE IF cells[1] # None THEN cells[1] ELSE FirstPresent(Tail(cells))

\* zero-padded decimal digits of n, at least w wide
RECURSIVE Digits(_, _)
Digits(n, w) ==
  IF n < 10 /\ w <= 1 THEN <<DigitChars[n + 1]>>
  ELSE Digits(n \div 10, w - 1) \o <<DigitChars[(n % 10) + 1]>>

\* date.isoformat() (line 144)
IsoFormat(date) ==
  Digits(date[1], 4) \o <<"-">> \o Digits(date[2], 2) \o <<"-">> \o Digits(date[3], 2)

DefaultCurrency == <<"U", "S", "D">>

\* lines 147: normalized_record.get('paid_amount', 0)
AmountCell(row) ==
  LET c == FirstPresent(<<row.amt_sigma, row.amt>>)
  IN IF c = None THEN RNum(0) ELSE Val(c)

\* line 150: normalized_record.get('paid_currency', '')
CurrencyCell(row) ==
  LET c == FirstPresent(<<row.cur_tr, row.cur>>)
  IN IF c = None THEN RStr(<<>>) ELSE Val(c)

\* line 151
CurrencyOf(val) ==
  IF val.t = "str" THEN Upper(Strip(val.s)) ELSE DefaultCurrency

\* lines 144-162: the record appended for a row whose date parsed
EmitRecord(row, date_obj) ==
  [payment_date |-> IsoFormat(date_obj),
   paid_amount |-> parse_amount(AmountCell(row)),
   paid_currency |-> CurrencyOf(CurrencyCell(row))]

\* the f-strings of lines 127 and 141: "Row {row_num}" text {raw_date}
MissingText == ": Missing required 'Tarih' field"
InvalidText == ": Invalid Tarih format: "
ErrorMessage(row_num, text, raw) == [row |-> row_num, text |-> text, raw |-> raw]

\* ----------------------------------------------------- sample cell texts
S_iso == <<"2", "0", "2", "4", "-", "0", "4", "-", "0", "3">>
S_slash == <<"0", "3", "/", "0", "4", "/", "2", "0", "2", "4">>
S_dot == <<"0", "3", ".", "0", "4", ".", "2", "0", "2", "4">>
S_notadate == <<"n", "o", "t", "-", "a", "-", "d", "a", "t", "e">>
S_garbage == <<"g", "a", "r", "b", "a", "g", "e">>
S_1234_56_tr == <<"1", ".", "2", "3", "4", ",", "5", "6">>
S_1234_56_comma == <<"1", "2", "3", "4", ",", "5", "6">>
S_1234_56_dot == <<"1", "2", "3", "4", ".", "5", "6">>
S_10 == <<"1", "0">>
S_minus5 == <<"-", "5">>
S_try == <<" ", "t", "r", "y", " ">>
S_eur == <<"e", "u", "r">>
SerialOfSample == 45385

\* rows that batches are built from
RowValid == MkRow(Some(RStr(S_iso)), Some(RStr(S_1234_56_tr)), None, Some(RStr(S_try)), None)
RowNoDate == MkRow(None, None, Some(RStr(S_10)), None, Some(RStr(S_eur)))
RowBadDate == MkRow(Some(RStr(S_notadate)), None, Some(RStr(S_10)), None, Some(RStr(S_eur)))
RowGarbageAmount == MkRow(Some(RStr(S_slash)), None, Some(RStr(S_garbage)), None, Some(RStr(S_eur)))
RowSerial == MkRow(Some(RNum(SerialOfSample)), None, None, None, None)
RowNullDate == MkRow(Some(RNone), None, Some(RNum(7)), None, None)
RowSamples == {RowValid, RowNoDate, RowBadDate, RowGarbageAmount, RowSerial, RowNullDate}

\* single rows: every combination of these cells
TarihCells ==
  {None, Some(RNone), Some(RNaN), Some(RStr(S_iso)), Some(RStr(S_notadate)),
   Some(RNum(SerialOfSample)), Some(RDatetime(<<2024, 4, 3>>))}
AmountCells ==
  {None, Some(RNone), Some(RNaN), Some(RStr(S_garbage)), Some(RStr(S_minus5)),
   Some(RStr(S_10)), Some(RNum(0 - 3))}
CurrencyCells == {None, Some(RNone), Some(RNum(5)), Some(RStr(S_eur))}
RowUniverse ==
  {MkRow(t, a1, a2, c1, c2) :
     t \in TarihCells, a1 \in {None, Some(RStr(S_1234_56_tr))}, a2 \in AmountCells,
     c1 \in {None, Some(RStr(S_try))}, c2 \in CurrencyCells}

MaxRows == 3

RECURSIVE SeqsOver(_, _)
SeqsOver(S, n) ==
  IF n = 0 THEN {<<>>}
  ELSE LET shorter == SeqsOver(S, n - 1)
       IN shorter \cup {Append(b, r) : b \in {x \in shorter : Len(x) = n - 1}, r \in S}

Batches == SeqsOver(RowSamples, MaxRows) \cup {<<r>> : r \in RowUniverse}

\* An input of _parse_date or parse_amount, with the parameters it was built
\* from: the calendar day and notation of a rendered day, the numbers and
\* separators of a three-part text, the value an amount text denotes.
NoDay == <<0, 0, 0>>
NoParts == [v |-> <<0, 0, 0>>, seps |-> <<"", "">>]
DateInput(cls, raw, day, notation, parts) ==
  [fn |-> "date", cls |-> cls, raw |-> raw, day |-> day, notation |-> notation,
   parts |-> parts, denotes |-> Zero, decimal |-> FALSE, grouped |-> FALSE]
AmountInput(cls, raw, denotes, decimal, grouped) ==
  [fn |-> "amount", cls |-> cls, raw |-> raw, day |-> NoDay, notation |-> "",
   parts |-> NoParts, denotes |-> denotes, decimal |-> decimal, grouped |-> grouped]
\* no parser has been handed a value
NoInput == None


\* ------------------------------------------- the resolver, run to its end
\* The calls below are made one after another by the payment functions, so
\* the resolver is computed here as one function of the store, the cache and
\* the days the remote authority answers (avail) while the call runs.

\* get_exchange_rate_from_tcmb once the cache gave hit and, on a miss, the
\* remote gave o (lines 34-35 and 57-68)
Fetched(ca, d, hit, o) ==
  IF hit # None THEN [rate |-> hit, cache |-> ca]
  ELSE [rate |-> o, cache |-> IF o # None THEN [ca EXCEPT ![d] = o] ELSE ca]

\* get_exchange_rate_from_tcmb (lines 31-68)
FetchSeq(ca, d, avail) ==
  Fetched(ca, d, CacheLookup(ca, d),
          FetchResult(IF d \in avail THEN "OK" ELSE "RequestException", d))

\* the loop of lines 139-142, entered with the fetch f of current_date done
RECURSIVE CascadeSeq(_, _, _, _)
\* lines 140-142: one round of the loop, for the day prev_day
CascadeRound(f, prev_day, attempts, avail) ==
  CascadeSeq(FetchSeq(f.cache, prev_day, avail), prev_day, attempts + 1, avail)

CascadeSeq(f, current_date, attempts, avail) ==
  IF f.rate = None /\ attempts < MaxAttempts
  THEN CascadeRound(f, get_previous_business_day(current_date), attempts, avail)
  ELSE [rate |-> f.rate, cache |-> f.cache, current_date |-> current_date]

\* what the resolver hands back; committed tells whether
\* db_session.commit() of line 158 ran
Resolved(ok, rate, date, st, ca, committed) ==
  [ok |-> ok, rate |-> rate, date |-> date, store |-> st, cache |-> ca,
   committed |-> committed]

\* lines 154-160 with the outcome k of the commit
InsertSeq(k, fb, ca) == Resolved(k.ok, fb[1], fb[2], k.store, ca, k.ok)

\* lines 150-160 with fb the pair left by lines 145-148
PersistSeq(st, ca, target_date, fb) ==
  IF ShouldPersist(TRUE, target_date, fb[2])
  THEN InsertSeq(Commit(st, target_date, fb[1]), fb, ca)
  ELSE Resolved(TRUE, fb[1], fb[2], st, ca, FALSE)

\* lines 145-160 with c the outcome of the fetches
AfterCascade(st, target_date, c) ==
  PersistSeq(st, c.cache, target_date, Fallback(c.rate, target_date, c.current_date))

\* lines 129-160 with row the result of the query of lines 125-127
AfterQuery(st, ca, target_date, avail, row) ==
  IF row # None
  THEN Resolved(TRUE, Val(row).usd_to_tl, target_date, st, ca, FALSE)
  ELSE AfterCascade(st, target_date,
                    CascadeSeq(FetchSeq(ca, target_date, avail), target_date, 0, avail))

\* get_exchange_rate_with_fallback(target_date, db) (lines 122-160)
ResolveSeq(st, ca, target_date, avail) ==
  AfterQuery(st, ca, target_date, avail, QueryFirst(st, target_date))

\* what the converter hands back, r being what the resolver handed back
Converted(ok, error, amount_usd, rate_date, r) ==
  [ok |-> ok, error |-> error, amount_usd |-> amount_usd, rate |-> r.rate,
   store |-> r.store, cache |-> r.cache, committed |-> r.committed,
   inserted |-> IF r.committed THEN {rate_date} ELSE {}]

\* lines 177-180
DivideSeq(amount_tl, rate_date, r) ==
  IF ~r.ok THEN Converted(FALSE, "IntegrityError", Zero, rate_date, r)
  ELSE IF r.rate = 0 THEN Converted(FALSE, "ZeroDivisionError", Zero, rate_date, r)
  ELSE Converted(TRUE, "", Divide(amount_tl, r.rate), rate_date, r)

\* convert_tl_to_usd(amount_tl, rate_date, db) (lines 175-180)
ConvertSeq(st, ca, amount_tl, rate_date, avail) ==
  DivideSeq(amount_tl, rate_date, ResolveSeq(st, ca, rate_date, avail))

\* ------------------------------------------------------- the payments table
\* payment_data.get(f): None when the key is absent
Get(payment_data, f) == IF f \in DOMAIN payment_data THEN payment_data[f] ELSE None

\* the keys save_payment reads with payment_data[...] after the conversion
\* (lines 31-34)
RequiredKeys == {"customer_name", "property_id", "payment_channel"}

\* the store and the cache as they are when no conversion was made
NoConversion(st, ca) == [store |-> st, cache |-> ca, inserted |-> {}]

\* what a payment function hands back: its outcome and the tables after it;
\* c carries the store and the cache, and the dates of the rate rows inserted
Outcome(ok, error, rows, hist, c, converted) ==
  [ok |-> ok, error |-> error, payments |-> rows, resolved |-> hist,
   store |-> c.store, cache |-> c.cache, inserted |-> c.inserted,
   converted |-> converted]

\* Payment(...) of lines 28-40
NewPayment(id, payment_data, c) ==
  [id |-> id,
   payment_date |-> payment_data.payment_date,
   customer_name |-> payment_data.customer_name,
   property_id |-> payment_data.property_id,
   payment_channel |-> payment_data.payment_channel,
   amount_tl |-> payment_data.amount_tl,
   amount_usd |-> c.amount_usd,
   exchange_rate |-> c.rate,
   notes |-> Get(payment_data, "notes")]

\* save_payment lines 25-47, c being what the converter handed back
SaveConverted(rows, hist, payment_data, c) ==
  IF ~c.ok
  THEN Outcome(FALSE, c.error, rows, hist, c, TRUE)
  ELSE IF ~(RequiredKeys \subseteq DOMAIN payment_data)
  THEN Outcome(FALSE, "KeyError", rows, hist, c, TRUE)
  ELSE Outcome(TRUE, "", Append(rows, NewPayment(Len(rows) + 1, payment_data, c)),
               Append(hist, <<c.rate, payment_data.payment_date>>), c, TRUE)

\* save_payment (data_storage.py lines 10-47)
save_payment(rows, hist, st, ca, payment_data, avail) ==
  IF "amount_tl" \notin DOMAIN payment_data
  THEN Outcome(FALSE, "KeyError: 'amount_tl'", rows, hist, NoConversion(st, ca), FALSE)
  ELSE IF "payment_date" \notin DOMAIN payment_data
  THEN Outcome(FALSE, "KeyError: 'payment_date'", rows, hist, NoConversion(st, ca), FALSE)
  ELSE SaveConverted(rows, hist, payment_data,
                     ConvertSeq(st, ca, payment_data.amount_tl,
                                payment_data.payment_date, avail))

\* lines 149-151: every payload field the row has, except id, is assigned
SetAttrs(payment, payment_data) ==
  [f \in DOMAIN payment |->
     IF f \in DOMAIN payment_data /\ f # "id" THEN payment_data[f] ELSE payment[f]]

\* line 154
Recalculate(payment_data) ==
  "amount_tl" \in DOMAIN payment_data \/ "payment_date" \in DOMAIN payment_data

\* lines 155-164, c being what the converter handed back.  The commit of the
\* resolver (currency_conversion.py line 158) is a commit of the caller's
\* session, so it writes the row's assigned fields too; an error after it
\* leaves them written, an error without it leaves the row as it was.
Recalculated(rows, hist, i, payment, c) ==
  IF ~c.ok
  THEN Outcome(FALSE, c.error,
               IF c.committed THEN [rows EXCEPT ![i] = payment] ELSE rows,
               hist, c, TRUE)
  ELSE Outcome(TRUE, "",
               [rows EXCEPT ![i] = [payment EXCEPT !.amount_usd = c.amount_usd,
                                                   !.exchange_rate = c.rate]],
               [hist EXCEPT ![i] = <<c.rate, payment.payment_date>>],
               c, TRUE)

\* lines 153-164 with payment the row after the assignments
UpdateRow(rows, hist, st, ca, i, payment, payment_data, avail) ==
  IF Recalculate(payment_data)
  THEN Recalculated(rows, hist, i, payment,
                    ConvertSeq(st, ca, payment.amount_tl, payment.payment_date, avail))
  ELSE Outcome(TRUE, "", [rows EXCEPT ![i] = payment], hist, NoConversion(st, ca), FALSE)

\* get_payment_by_id (lines 119-130): the position of the row in the table
RowIndex(rows, payment_id) == CHOOSE j \in 1..Len(rows) : rows[j].id = payment_id

\* lines 148-164 for the row at position i
UpdateAt(rows, hist, st, ca, i, payment_data, avail) ==
  UpdateRow(rows, hist, st, ca, i, SetAttrs(rows[i], payment_data), payment_data, avail)

\* update_payment (data_storage.py lines 132-164)
update_payment(rows, hist, st, ca, payment_id, payment_data, avail) ==
  IF ~(\E i \in 1..Len(rows) : rows[i].id = payment_id)
  THEN Outcome(TRUE, "not found", rows, hist, NoConversion(st, ca), FALSE)
  ELSE UpdateAt(rows, hist, st, ca, RowIndex(rows, payment_id), payment_data, avail)

\* what the remote authority answers during one call: every day, no day, or
\* every day but the requested ones
RemoteStates == {Days, {}, Days \ TargetDates}

\* ----------------------------------------------------------------- state
VARIABLES
  store,      \* rows of exchange_rates
  cache,      \* exchange_rate_cache: day -> Optional rate
  proc,       \* per caller: position and locals of its call
  lastRet,    \* day -> Optional <<rate, effective_date>> of the latest
              \* completed call made with a store for that target date
  persisted,  \* day -> number of rows committed for that date
  ncalls,     \* calls started
  imp,        \* the locals of validate_and_normalize_data
  prs,        \* a call of _parse_date or parse_amount on its own
  pay         \* the payments table and the calls that write it

\* the batch of rows
data == imp.data
\* rows of the batch the loop has gone through
idx == imp.idx
\* normalized_data
normalized == imp.normalized
\* history: the row number behind each entry of normalized_data
srcrow == imp.srcrow
errors == imp.errors
\* position of the normaliser: "off", "loop", "done"
ipc == imp.pc

\* the value handed to the parser, with what it was built from
pin == prs.pin
\* what _parse_date returned
date_out == prs.date_out
\* what parse_amount returned
amount_out == prs.amount_out
\* position of the parser call: "off", "input", "done"
ppc == prs.pc

\* rows of the payments table, in insertion order
payments == pay.payments
\* history: per row of payments, the <<rate, date>> of the latest conversion
\* made for it
resolved == pay.resolved

resolverVars == <<store, cache, proc, lastRet, persisted, ncalls>>
vars == <<resolverVars, imp, prs, pay>>

IdleProc ==
  [pc |-> "idle", op |-> "resolve", target_date |-> 0, db_session |-> FALSE,
   amount_tl |-> 0, rate |-> None, current_date |-> 0, attempts |-> 0,
   in_loop |-> FALSE, requests |-> 0, cache_reads |-> 0, from_store |-> FALSE,
   fell_back |-> FALSE, prev |-> None, result |-> None, conv |-> None,
   error |-> ""]

\* no call of the resolver has been made
ResolverIdle ==
  /\ store = {}
  /\ cache = [d \in Days |-> None]
  /\ proc = [p \in Procs |-> IdleProc]
  /\ lastRet = [d \in Days |-> None]
  /\ persisted = [d \in Days |-> 0]
  /\ ncalls = 0

\* the normaliser is not running
IdleImport ==
  [data |-> <<>>, idx |-> 0, normalized |-> <<>>, errors |-> <<>>, srcrow |-> <<>>,
   pc |-> "off"]
ImportIdle == imp = IdleImport

\* no parser is being called on its own
IdleParse == [pin |-> NoInput, date_out |-> None, amount_out |-> Zero, pc |-> "off"]
ParseIdle == prs = IdleParse

\* the payments table is empty and nothing has been saved
IdlePay ==
  [pc |-> "off", payments |-> <<>>, resolved |-> <<>>, ncalls |-> 0,
   sidx |-> 0, saved_count |-> 0, save_errors |-> <<>>, converter_calls |-> 0,
   records_imported |-> 0, last |-> ""]
PayIdle == pay = IdlePay

Init == ResolverIdle /\ ImportIdle /\ ParseIdle /\ PayIdle

\* ---------------------------------------------------------------- actions
\* A caller enters get_exchange_rate_with_fallback (op "resolve") or
\* convert_tl_to_usd (op "convert", which calls it at line 175).
Call(p) ==
  /\ proc[p].pc \in {"idle", "done", "raised"}
  /\ ncalls < MaxCalls
  /\ \E o \in {"resolve", "convert"}, d \in TargetDates, s \in BOOLEAN :
       proc' = [proc EXCEPT ![p] =
                 [IdleProc EXCEPT !.pc = "lookup", !.op = o,
                    !.target_date = d, !.db_session = s,
                    !.current_date = d,
                    !.prev = IF s THEN lastRet[d] ELSE None]]
  /\ ncalls' = ncalls + 1
  /\ UNCHANGED <<store, cache, lastRet, persisted>>
  /\ UNCHANGED <<imp, prs, pay>>

\* The locals of a call whose resolver has produced (r, eff) and whose
\* amount_tl is a.  result is the resolver's pair (line 160 or 130); conv is
\* the converter's pair (line 180), which a zero rate turns into
\* ZeroDivisionError (line 178).
Returned(q, r, eff, a) ==
  LET q1 == [q EXCEPT !.rate = Some(r), !.current_date = eff,
                      !.result = Some(<<r, eff>>), !.amount_tl = a]
  IN IF q.op = "convert" /\ r = 0
     THEN [q1 EXCEPT !.pc = "raised", !.error = "ZeroDivisionError"]
     ELSE [q1 EXCEPT !.pc = "done",
                     !.conv = IF q.op = "convert"
                              THEN Some(<<Divide(a, r), r>>)
                              ELSE None]

\* history: the pair the resolver returned (line 130 or 160) to a caller
\* that passed a db_session, kept per target date
NoteReturn(q, r, eff) ==
  IF q.db_session
  THEN [lastRet EXCEPT ![q.target_date] = Some(<<r, eff>>)]
  ELSE lastRet

\* lines 122-130: the store is consulted first; a row for exactly
\* target_date is returned at once.
Lookup(p) ==
  LET q == proc[p]
      row == QueryFirst(store, q.target_date)
  IN /\ q.pc = "lookup"
     /\ IF q.db_session /\ row # None
        THEN /\ \E a \in AmountsOf(q.op) : proc' = [proc EXCEPT ![p] =
                  Returned([q EXCEPT !.from_store = TRUE],
                           Val(row).usd_to_tl, q.target_date, a)]
             /\ lastRet' = NoteReturn(q, Val(row).usd_to_tl, q.target_date)
        ELSE /\ proc' = [proc EXCEPT ![p].pc = "fetch"]
             /\ UNCHANGED lastRet
     /\ UNCHANGED <<store, cache, persisted, ncalls>>
     /\ UNCHANGED <<imp, prs, pay>>

\* lines 139-148, run once a fetch has returned o: count the attempt, step
\* back one business day and fetch again, or leave the loop and apply the
\* default.
AfterFetch(q, o) ==
  LET att == IF q.in_loop THEN q.attempts + 1 ELSE q.attempts
  IN IF o = None /\ att < MaxAttempts
     THEN [q EXCEPT !.pc = "fetch", !.rate = None, !.attempts = att,
                    !.in_loop = TRUE,
                    !.current_date = get_previous_business_day(q.current_date)]
     ELSE LET fb == Fallback(o, q.target_date, q.current_date)
          IN [q EXCEPT !.pc = "persist", !.rate = Some(fb[1]), !.attempts = att,
                       !.current_date = fb[2], !.fell_back = (o = None)]

\* get_exchange_rate_from_tcmb lines 31-35: the cache is asked first.
FetchCache(p) ==
  LET q == proc[p]
      hit == CacheLookup(cache, q.current_date)
      q1 == [q EXCEPT !.cache_reads = q.cache_reads + 1]
  IN /\ q.pc = "fetch"
     /\ proc' = [proc EXCEPT ![p] =
                  IF hit # None THEN AfterFetch(q1, hit)
                  ELSE [q1 EXCEPT !.pc = "request"]]
     /\ UNCHANGED <<store, cache, lastRet, persisted, ncalls>>
     /\ UNCHANGED <<imp, prs, pay>>

\* get_exchange_rate_from_tcmb lines 41-68: the GET and its parse.
FetchResponse(p) ==
  LET q == proc[p]
      q1 == [q EXCEPT !.requests = q.requests + 1]
  IN /\ q.pc = "request"
     /\ \E resp \in Responses :
          LET o == FetchResult(resp, q.current_date)
          IN /\ proc' = [proc EXCEPT ![p] = AfterFetch(q1, o)]
             /\ cache' = IF o # None
                         THEN [cache EXCEPT ![q.current_date] = o]
                         ELSE cache
     /\ UNCHANGED <<store, lastRet, persisted, ncalls>>
     /\ UNCHANGED <<imp, prs, pay>>

\* lines 150-160: store the rate when a session is given and the date used
\* is the target date, then return.
Persist(p) ==
  LET q == proc[p]
      r == Val(q.rate)
  IN /\ q.pc = "persist"
     /\ IF ShouldPersist(q.db_session, q.target_date, q.current_date)
        THEN LET c == Commit(store, q.target_date, r)
             IN IF c.ok
                THEN /\ store' = c.store
                     /\ persisted' = [persisted EXCEPT ![q.target_date] = @ + 1]
                     /\ \E a \in AmountsOf(q.op) : proc' = [proc EXCEPT ![p] = Returned(q, r, q.current_date, a)]
                     /\ lastRet' = NoteReturn(q, r, q.current_date)
                ELSE /\ proc' = [proc EXCEPT ![p] =
                                  [q EXCEPT !.pc = "raised",
                                            !.error = "IntegrityError"]]
                     /\ UNCHANGED <<store, persisted, lastRet>>
        ELSE /\ \E a \in AmountsOf(q.op) : proc' = [proc EXCEPT ![p] = Returned(q, r, q.current_date, a)]
             /\ lastRet' = NoteReturn(q, r, q.current_date)
             /\ UNCHANGED <<store, persisted>>
     /\ UNCHANGED <<cache, ncalls>>
     /\ UNCHANGED <<imp, prs, pay>>

Next ==
  \E p \in Procs :
    \/ Call(p)
    \/ Lookup(p)
    \/ FetchCache(p)
    \/ FetchResponse(p)
    \/ Persist(p)

Spec == Init /\ [][Next]_vars

\* a call that is under way takes its next step: the resolver is straight-line
\* code around a loop of at most five rounds, the GET has a timeout (line 42)
\* and the commit answers
Step(p) == Lookup(p) \/ FetchCache(p) \/ FetchResponse(p) \/ Persist(p)

FairSpec == Spec /\ \A p \in Procs : WF_vars(Step(p))

\* =================================================== the normaliser's loop
\* line 115
RowNum_zero_based(idx0) == idx0

RowNum(idx0) == idx0 + 1

\* `continue` (lines 128 and 142): on to the next row of the batch
Continue_abort(n, idx0) == n

Continue(n, idx0) == idx0 + 1

\* list.append (lines 127, 141, 158)
AppendTo_front(list, x) == <<x>> \o list

AppendTo(list, x) == Append(list, x)

ImportInit ==
  /\ \E batch \in Batches : imp = [IdleImport EXCEPT !.data = batch, !.pc = "loop"]
  /\ ResolverIdle
  /\ ParseIdle
  /\ PayIdle

\* one iteration of the loop of lines 114-162
NormalizeRow ==
  /\ ipc = "loop"
  /\ idx < Len(data)
  /\ LET record == data[idx + 1]
         row_num == RowNum(idx)
     IN IF record.tarih = None
        THEN imp' = [imp EXCEPT
                       !.errors = AppendTo(errors, ErrorMessage(row_num, MissingText, None)),
                       !.idx = Continue(Len(data), idx)]
        ELSE LET raw_date == Val(record.tarih)
                 date_obj == parse_date(raw_date)
             IN IF date_obj = None
                THEN imp' = [imp EXCEPT
                               !.errors = AppendTo(errors,
                                            ErrorMessage(row_num, InvalidText, Some(raw_date))),
                               !.idx = Continue(Len(data), idx)]
                ELSE imp' = [imp EXCEPT
                               !.normalized = AppendTo(normalized,
                                                EmitRecord(record, Val(date_obj))),
                               !.srcrow = AppendTo(srcrow, row_num),
                               !.idx = idx + 1]
  /\ UNCHANGED <<resolverVars, prs, pay>>

\* line 164: return normalized_data, errors
ReturnNormalized ==
  /\ ipc = "loop"
  /\ idx >= Len(data)
  /\ imp' = [imp EXCEPT !.pc = "done"]
  /\ UNCHANGED <<resolverVars, prs, pay>>

\* the tables and counters of pay after a payment function returned r
AfterOutcome(r) ==
  /\ store' = r.store
  /\ cache' = r.cache
  /\ persisted' = [d \in Days |-> persisted[d] + (IF d \in r.inserted THEN 1 ELSE 0)]
  /\ UNCHANGED <<proc, lastRet, ncalls>>

\* import_payments (index.py lines 70-78): nothing is saved when no row was
\* normalised and there are errors
ImportPayments ==
  /\ ipc = "done"
  /\ pay.pc = "off"
  /\ pay' = IF normalized = <<>> /\ errors # <<>>
            THEN [pay EXCEPT !.pc = "responded", !.records_imported = 0]
            ELSE [pay EXCEPT !.pc = "bulk"]
  /\ UNCHANGED <<resolverVars, imp, prs>>

\* save_bulk_payments lines 65-68, save_payment having handed back r
BulkReturned(r) ==
  /\ pay' = [pay EXCEPT
               !.payments = r.payments,
               !.resolved = r.resolved,
               !.sidx = @ + 1,
               !.saved_count = IF r.ok THEN @ + 1 ELSE @,
               !.save_errors = IF r.ok THEN @
                               ELSE Append(@, [record |-> pay.sidx + 1,
                                               error |-> r.error]),
               !.converter_calls = IF r.converted THEN @ + 1 ELSE @,
               !.last = r.error]
  /\ AfterOutcome(r)

\* one iteration of the loop of save_bulk_payments (data_storage.py lines
\* 63-68)
SaveBulkRecord ==
  /\ pay.pc = "bulk"
  /\ pay.sidx < Len(normalized)
  /\ \E avail \in RemoteStates :
       BulkReturned(save_payment(payments, resolved, store, cache,
                                 normalized[pay.sidx + 1], avail))
  /\ UNCHANGED <<imp, prs>>

\* data_storage.py line 70 and index.py lines 80-88
ImportResponse ==
  /\ pay.pc = "bulk"
  /\ pay.sidx >= Len(normalized)
  /\ pay' = [pay EXCEPT !.pc = "responded", !.records_imported = pay.saved_count]
  /\ UNCHANGED <<resolverVars, imp, prs>>

ImportNext ==
  NormalizeRow \/ ReturnNormalized \/ ImportPayments \/ SaveBulkRecord \/ ImportResponse

ImportSpec == ImportInit /\ [][ImportNext]_vars

\* ==================================================== the parsers' inputs
\* --- calendar days in the notations of lines 50-85
SampleYears == {2000, 2023, 2024}
SampleDays ==
  {t \in SampleYears \X (1..12) \X (1..31) : t[3] <= DaysInMonth(t[1], t[2])}
Notations == {"iso", "slash", "dot", "serial", "serial_text"}
SerialOfDay(day) == DaysFromCivil(day[1], day[2], day[3]) - DaysFromCivil(1899, 12, 30)
Render(day, notation) ==
  CASE notation = "iso" ->
         RStr(Digits(day[1], 4) \o <<"-">> \o Digits(day[2], 2) \o <<"-">> \o Digits(day[3], 2))
    [] notation = "slash" ->
         RStr(Digits(day[3], 2) \o <<"/">> \o Digits(day[2], 2) \o <<"/">> \o Digits(day[1], 4))
    [] notation = "dot" ->
         RStr(Digits(day[3], 2) \o <<".">> \o Digits(day[2], 2) \o <<".">> \o Digits(day[1], 4))
    [] notation = "serial" -> RNum(SerialOfDay(day))
    [] notation = "serial_text" -> RStr(Digits(SerialOfDay(day), 1))
DayInputs ==
  {DateInput("day", Render(day, n), day, n, NoParts) : day \in SampleDays, n \in Notations}

\* --- three numbers joined by two separators
Components ==
  {[v |-> 0, w |-> 1], [v |-> 3, w |-> 1], [v |-> 2, w |-> 2], [v |-> 4, w |-> 2],
   [v |-> 13, w |-> 2], [v |-> 24, w |-> 2], [v |-> 29, w |-> 2], [v |-> 31, w |-> 2],
   [v |-> 32, w |-> 2], [v |-> 99, w |-> 2], [v |-> 2023, w |-> 4], [v |-> 2024, w |-> 4]}
Separators == {"/", ".", "-"}
ThreePartInputs ==
  {DateInput("three_part",
             RStr(Digits(a.v, a.w) \o <<s1>> \o Digits(b.v, b.w) \o <<s2>> \o Digits(c.v, c.w)),
             NoDay, "", [v |-> <<a.v, b.v, c.v>>, seps |-> <<s1, s2>>]) :
     a \in Components, b \in Components, c \in Components,
     s1 \in Separators, s2 \in Separators}

\* --- empty values and the tokens of line 41 in every letter case
CaseVariants(word) ==
  {[i \in 1..Len(word) |-> IF mask[i] THEN UpperChar(word[i]) ELSE word[i]] :
     mask \in [1..Len(word) -> BOOLEAN]}
TokenInputs ==
  {DateInput("token", RStr(s), NoDay, "", NoParts) :
     s \in CaseVariants(<<"n", "a", "n">>) \cup CaseVariants(<<"n", "o", "n", "e">>)}
EmptyInputs ==
  {DateInput("null", RNone, NoDay, "", NoParts),
   DateInput("empty", RStr(<<>>), NoDay, "", NoParts),
   DateInput("empty", RStr(<<" ">>), NoDay, "", NoParts),
   DateInput("empty", RNaN, NoDay, "", NoParts)}

\* --- short texts
MaxTextLen == 3
TextsOver(alphabet) ==
  UNION {[1..n -> alphabet] : n \in 1..MaxTextLen}
DateTexts ==
  {s \in TextsOver({"n", "a", "-", "3"}) : \E i \in 1..Len(s) : s[i] \in {"n", "a"}}
WordInputs ==
  {DateInput("words", RStr(s), NoDay, "", NoParts) : s \in DateTexts \cup {S_notadate, S_garbage}}

DateInputs == DayInputs \cup ThreePartInputs \cup TokenInputs \cup EmptyInputs \cup WordInputs

\* --- amounts written with '.' for thousands and ',' for decimals
\* digits of n with a '.' before every group of three
RECURSIVE Grouped(_)
Grouped(n) ==
  IF n < 1000 THEN Digits(n, 1)
  ELSE Grouped(n \div 1000) \o <<".">> \o Digits(n % 1000, 3)
Wholes == {0, 5, 12, 999, 1234, 20000, 1234567}
Fractions == {[v |-> 5, w |-> 1], [v |-> 5, w |-> 2], [v |-> 50, w |-> 2], [v |-> 56, w |-> 2]}
LocaleInputs ==
  {AmountInput("locale",
               RStr((IF g THEN Grouped(whole) ELSE Digits(whole, 1)) \o <<",">> \o Digits(f.v, f.w)),
               Reduce(whole * Pow10(f.w) + f.v, Pow10(f.w)), TRUE, g /\ whole >= 1000) :
     whole \in Wholes, f \in Fractions, g \in BOOLEAN}
  \cup
  {AmountInput("locale", RStr(IF g THEN Grouped(whole) ELSE Digits(whole, 1)),
               <<whole, 1>>, FALSE, g /\ whole >= 1000) :
     whole \in Wholes, g \in BOOLEAN}
AmountTexts ==
  {s \in TextsOver({"g", "1", ",", "-"}) : \E i \in 1..Len(s) : s[i] = "g"}
UnparseableInputs ==
  {AmountInput("unparseable", RStr(s), Zero, FALSE, FALSE) :
     s \in AmountTexts \cup {S_garbage, <<",">>, <<"-">>, <<"1", ",", "2", ",", "3">>}}
NullAmountInputs ==
  {AmountInput("null", RNone, Zero, FALSE, FALSE),
   AmountInput("empty", RStr(<<>>), Zero, FALSE, FALSE),
   AmountInput("empty", RStr(<<" ">>), Zero, FALSE, FALSE)}
OtherAmountInputs ==
  {AmountInput("other", RStr(S_1234_56_dot), Reduce(123456, 100), TRUE, FALSE),
   AmountInput("other", RStr(S_minus5), <<0 - 5, 1>>, FALSE, FALSE),
   AmountInput("other", RNum(0 - 3), <<0 - 3, 1>>, FALSE, FALSE),
   AmountInput("other", RNaN, NaN, FALSE, FALSE)}

AmountInputs == LocaleInputs \cup UnparseableInputs \cup NullAmountInputs \cup OtherAmountInputs

ParseInit ==
  /\ \E v \in DateInputs \cup AmountInputs : prs = [IdleParse EXCEPT !.pin = v, !.pc = "input"]
  /\ ResolverIdle
  /\ ImportIdle
  /\ PayIdle

\* a call of _parse_date (line 138)
ParseDate ==
  /\ ppc = "input"
  /\ pin.fn = "date"
  /\ prs' = [prs EXCEPT !.date_out = parse_date(pin.raw), !.pc = "done"]
  /\ UNCHANGED <<resolverVars, imp, pay>>

\* a call of parse_amount (line 147)
ParseAmount ==
  /\ ppc = "input"
  /\ pin.fn = "amount"
  /\ prs' = [prs EXCEPT !.amount_out = parse_amount(pin.raw), !.pc = "done"]
  /\ UNCHANGED <<resolverVars, imp, pay>>

ParseNext == ParseDate \/ ParseAmount

ParseSpec == ParseInit /\ [][ParseNext]_vars

\* ------------------------------------------------- calls on the payments
\* calls of save_payment and update_payment made one after another
MaxPaymentCalls == 3

\* a PaymentCreate payload (schemas.py lines 6-21) as a dict
PaymentCreate(d, a) ==
  [payment_date |-> d, customer_name |-> "c", property_id |-> "p",
   payment_channel |-> "k", amount_tl |-> a, notes |-> None]

\* dicts handed to save_payment: full ones, one without customer_name, and
\* one shaped like a normalized record
SavePayloads ==
  {PaymentCreate(d, a) : d \in TargetDates, a \in Amounts}
  \cup {[payment_date |-> MaxDay - 1, amount_tl |-> 90]}
  \cup {[payment_date |-> MaxDay - 1, paid_amount |-> 90, paid_currency |-> "TRY"]}

\* dicts handed to update_payment: full ones and partial ones
UpdatePayloads ==
  {PaymentCreate(d, 45) : d \in TargetDates}
  \cup {[payment_date |-> d] : d \in TargetDates}
  \cup {[amount_tl |-> 45], [amount_usd |-> <<1, 1>>], [exchange_rate |-> 1],
        [notes |-> <<"n">>], [id |-> 9], [colour |-> "x"]}

PaymentInit ==
  /\ pay = [IdlePay EXCEPT !.pc = "api"]
  /\ ResolverIdle
  /\ ImportIdle
  /\ ParseIdle

\* the tables after a call that handed back r
Called(r) ==
  /\ pay' = [pay EXCEPT !.payments = r.payments, !.resolved = r.resolved,
                        !.ncalls = @ + 1,
                        !.converter_calls = IF r.converted THEN @ + 1 ELSE @,
                        !.last = IF r.ok /\ r.error = "" THEN "ok" ELSE r.error]
  /\ AfterOutcome(r)

\* a call of save_payment (index.py line 103)
SavePaymentCall ==
  /\ pay.pc = "api"
  /\ pay.ncalls < MaxPaymentCalls
  /\ \E payment_data \in SavePayloads, avail \in RemoteStates :
       Called(save_payment(payments, resolved, store, cache, payment_data, avail))
  /\ UNCHANGED <<imp, prs>>

\* a call of update_payment (index.py line 148)
UpdatePaymentCall ==
  /\ pay.pc = "api"
  /\ pay.ncalls < MaxPaymentCalls
  /\ \E payment_id \in 1..MaxPaymentCalls, payment_data \in UpdatePayloads,
        avail \in RemoteStates :
       Called(update_payment(payments, resolved, store, cache,
                             payment_id, payment_data, avail))
  /\ UNCHANGED <<imp, prs>>

PaymentNext == SavePaymentCall \/ UpdatePaymentCall

PaymentSpec == PaymentInit /\ [][PaymentNext]_vars

\* ------------------------------------------------------------ properties
HasRow(st, d) == \E rec \in st : rec.date = d
RowRate(st, d) == (CHOOSE rec \in st : rec.date = d).usd_to_tl

\* p is about to run lines 150-158 with the condition of line 151 true
AtInsert(p) ==
  /\ proc[p].pc = "persist"
  /\ proc[p].db_session
  /\ proc[p].target_date = proc[p].current_date

\* C1: when the resolver falls back to the default rate after the fetch
\* failed for target_date and its 5 preceding business days, and a store is
\* available, the call leaves the store as it was.
C1_FallbackNotPersisted ==
  [][\A p \in Procs :
       (proc[p].pc = "persist" /\ proc[p].fell_back /\ proc[p].db_session
          /\ proc'[p] # proc[p])
       => store' = store]_vars

\* C2: the call that loses the race to insert the row for a date (the row
\* is already there when it commits) re-reads the row and returns
\* (stored rate, target_date); the store is left intact.
C2_LoserRereads ==
  [][\A p \in Procs :
       (AtInsert(p) /\ HasRow(store, proc[p].target_date)
          /\ proc'[p] # proc[p])
       => /\ proc'[p].result =
               Some(<<RowRate(store, proc[p].target_date), proc[p].target_date>>)
          /\ store' = store]_vars

\* C3 (as stated): a call with a store returns the rate the previous
\* completed call with a store returned for the same date, and at most one
\* row is ever committed for a date.
C3_SameRateTwice ==
  /\ \A p \in Procs :
       (proc[p].result # None /\ proc[p].db_session /\ proc[p].prev # None)
       => Val(proc[p].result)[1] = Val(proc[p].prev)[1]
  /\ \A d \in Days : persisted[d] <= 1

\* C3 (amended): a call with a store returns the rate the previous completed
\* call with a store returned for the same date whenever that previous call
\* returned effective_date = target_date, and at most one row is ever
\* committed for a date.
C3_SameRateAfterTargetDated ==
  /\ \A p \in Procs :
       (proc[p].result # None /\ proc[p].db_session /\ proc[p].prev # None
          /\ Val(proc[p].prev)[2] = proc[p].target_date)
       => Val(proc[p].result)[1] = Val(proc[p].prev)[1]
  /\ \A d \in Days : persisted[d] <= 1

C3_Witness ==
  \E p \in Procs :
    /\ proc[p].result # None /\ proc[p].db_session /\ proc[p].prev # None
    /\ Val(proc[p].prev)[2] = proc[p].target_date
    /\ persisted[proc[p].target_date] = 1

\* C4: the store holds at most one row per date.
C4_OneRowPerDate ==
  \A r1 \in store : \A r2 \in store : r1.date = r2.date => r1 = r2

\* two calls raced to insert the same date: one row is there, one call was
\* rejected
C4_Witness ==
  \E p \in Procs :
    /\ proc[p].error = "IntegrityError"
    /\ HasRow(store, proc[p].target_date)

\* C5: no call of the resolver ends in an exception; the only exception a
\* caller can see is the converter's own division.
C5_ResolveNeverRaises ==
  \A p \in Procs : proc[p].pc = "raised" => proc[p].error = "ZeroDivisionError"

\* C6: when the fetch failed for target_date and its 5 preceding business
\* days, the resolver returns (DefaultRate, target_date).
C6_FallbackKeepsTargetDate ==
  \A p \in Procs :
    (proc[p].result # None /\ proc[p].fell_back)
    => proc[p].result = Some(<<DefaultRate, proc[p].target_date>>)

C6_Witness ==
  \E p \in Procs :
    /\ proc[p].result # None /\ proc[p].fell_back
    /\ proc[p].attempts = MaxAttempts /\ proc[p].requests = MaxAttempts + 1

\* C7: a call with a store that finds a row for exactly target_date returns
\* (stored rate, target_date) in that step, with no remote request, no cache
\* read, the cache unchanged and the store unchanged.
C7_StoredRowShortCircuits ==
  [][\A p \in Procs :
       (proc[p].pc = "lookup" /\ proc[p].db_session
          /\ HasRow(store, proc[p].target_date) /\ proc'[p] # proc[p])
       => /\ proc'[p].result =
               Some(<<RowRate(store, proc[p].target_date), proc[p].target_date>>)
          /\ proc'[p].requests = 0
          /\ proc'[p].cache_reads = 0
          /\ cache' = cache
          /\ store' = store]_vars

C7_Witness ==
  \E p \in Procs :
    /\ proc[p].from_store /\ proc[p].result # None
    /\ cache[proc[p].target_date] # None

\* C8: every rate the resolver returns is strictly positive.
C8_RatePositive ==
  \A p \in Procs : proc[p].result # None => Val(proc[p].result)[1] > 0

\* C9: a row that is in the store stays in it, with its date and rate.
C9_RowsNeverChange ==
  [][\A rec \in store :
       \E rec2 \in store' :
         rec2.date = rec.date /\ rec2.usd_to_tl = rec.usd_to_tl]_vars

\* a call that reached the insert for a date whose row was already there
C9_Witness ==
  \E p \in Procs :
    /\ proc[p].pc = "raised" /\ proc[p].error = "IntegrityError"
    /\ \E q \in Procs : q # p /\ proc[q].result # None
                         /\ proc[q].target_date = proc[p].target_date

\* C10: the converter returns (amount / rate, rate) with rate the rate the
\* resolver returned, and converted_amount * rate_used is the amount.
C10_ConvertDividesByResolvedRate ==
  \A p \in Procs :
    proc[p].conv # None =>
      LET f == Val(proc[p].conv)[1]
          r == Val(proc[p].conv)[2]
      IN /\ r = Val(proc[p].result)[1]
         /\ f[2] # 0
         /\ f[1] * r = proc[p].amount_tl * f[2]
         /\ Times(f, r) = <<proc[p].amount_tl, 1>>

C10_Witness ==
  \E p \in Procs :
    /\ proc[p].conv # None /\ proc[p].amount_tl # 0
    /\ Val(proc[p].conv)[1][2] # 1

\* ------------------------------------------- properties of the normaliser
\* the calendar day a sample date cell stands for, if any
DayOfCell(cell) ==
  IF cell \in {RStr(S_iso), RStr(S_slash), RStr(S_dot), RNum(SerialOfSample),
               RDatetime(<<2024, 4, 3>>)}
  THEN Some(<<2024, 4, 3>>)
  ELSE None

\* the row has a date cell that stands for a day
HasGoodDate(row) == row.tarih # None /\ DayOfCell(Val(row.tarih)) # None

Range(seq) == {seq[i] : i \in 1..Len(seq)}
ErrorRows == {errors[i].row : i \in 1..Len(errors)}
Increasing(seq) == \A i \in 1..Len(seq), j \in 1..Len(seq) : i < j => seq[i] < seq[j]

\* C11: when exactly row K of a batch of N rows has no date column and every
\* other row has a good date, the normaliser returns exactly one error, for
\* "Row K", and N-1 normalized records.
C11_MissingDateRowReported ==
  ipc = "done" =>
    \A K \in 1..Len(data) :
      (/\ data[K].tarih = None
       /\ \A j \in 1..Len(data) : j # K => HasGoodDate(data[j]))
      => /\ Len(errors) = 1
         /\ errors[1].row = K
         /\ errors[1].text = ": Missing required 'Tarih' field"
         /\ Len(normalized) = Len(data) - 1

C11_Witness ==
  /\ ipc = "done"
  /\ data = <<RowValid, RowNoDate, RowSerial>>
  /\ Len(errors) = 1
  /\ errors[1].row = 2
  /\ Len(normalized) = 2

\* rows the loop has gone through whose date cell is there and stands for
\* no day
BadDateRows == {j \in 1..idx : data[j].tarih # None /\ ~HasGoodDate(data[j])}

\* C12 (as stated): a row whose date value does not parse adds the error
\* "Row N: Invalid date format: <raw>" to errors.
C12_InvalidDateFormatMessage ==
  \A j \in BadDateRows :
    \E i \in 1..Len(errors) :
      errors[i] = [row |-> j, text |-> ": Invalid date format: ", raw |-> data[j].tarih]

\* C12 (amended): a row whose date value does not parse adds the error
\* "Row N: Invalid Tarih format: <raw>" to errors, with N its 1-indexed row
\* number and <raw> the raw value, adds no record to normalized, and the
\* rows after it are still processed: when the normaliser returns, every row
\* of the batch has either a normalized record or an error.
C12_InvalidTarihFormatMessage ==
  /\ \A j \in BadDateRows :
       /\ \E i \in 1..Len(errors) :
            errors[i] = [row |-> j, text |-> ": Invalid Tarih format: ", raw |-> data[j].tarih]
       /\ j \notin Range(srcrow)
  /\ ipc = "done" => \A j \in 1..Len(data) : j \in Range(srcrow) \cup ErrorRows

C12_Witness ==
  /\ ipc = "done"
  /\ data = <<RowValid, RowBadDate, RowGarbageAmount>>
  /\ errors = <<[row |-> 2, text |-> ": Invalid Tarih format: ",
                 raw |-> Some(RStr(S_notadate))]>>
  /\ srcrow = <<1, 3>>

\* C13: every input row gives exactly one output entry: normalized holds the
\* records of the accepted rows in row order, errors holds the messages of
\* the rejected rows in row order, a rejected row leaves nothing in
\* normalized, and len(normalized) + len(errors) is the number of rows gone
\* through (the number of input rows when the normaliser returns).
C13_OneEntryPerRow ==
  /\ Len(srcrow) = Len(normalized)
  /\ Increasing(srcrow)
  /\ Increasing([i \in 1..Len(errors) |-> errors[i].row])
  /\ Range(srcrow) = {j \in 1..idx : HasGoodDate(data[j])}
  /\ ErrorRows = {j \in 1..idx : ~HasGoodDate(data[j])}
  /\ Len(normalized) + Len(errors) = idx
  /\ ipc = "done" => idx = Len(data)
  /\ \A k \in 1..Len(normalized) :
       /\ normalized[k].payment_date = S_iso
       /\ data[srcrow[k]] = RowValid => normalized[k].paid_amount = <<30864, 25>>
       /\ data[srcrow[k]] = RowGarbageAmount => normalized[k].paid_amount = <<0, 1>>

C13_Witness ==
  /\ ipc = "done"
  /\ data = <<RowGarbageAmount, RowNoDate, RowValid>>
  /\ Len(normalized) = 2
  /\ normalized[1].paid_amount = <<0, 1>>
  /\ normalized[2].paid_amount = <<30864, 25>>
  /\ Len(errors) = 1

\* the currency cell of a row: the first currency column the row has
CurrencyCellOf(row) == IF row.cur_tr # None THEN row.cur_tr ELSE row.cur
\* the amount cell of a row: the first amount column the row has
AmountCellOf(row) == IF row.amt_sigma # None THEN row.amt_sigma ELSE row.amt

\* C14: every emitted record carries the trimmed, uppercased currency text
\* of its row when the row has a string currency value, and 'USD' when the
\* row has no currency column or the value is not a string.
C14_CurrencyTrimmedUpperOrDefault ==
  \A k \in 1..Len(normalized) :
    LET cell == CurrencyCellOf(data[srcrow[k]])
    IN normalized[k].paid_currency =
         IF cell = Some(RStr(S_try)) THEN <<"T", "R", "Y">>
         ELSE IF cell = Some(RStr(S_eur)) THEN <<"E", "U", "R">>
         ELSE <<"U", "S", "D">>

\* C15: every emitted record has paid_amount >= 0, whatever the raw amount,
\* negative numbers and negative numeric strings included.
C15_AmountNonNegative ==
  \A k \in 1..Len(normalized) : ~(normalized[k].paid_amount[1] < 0)

\* C16: a row with a parseable date is always emitted, whatever its amount:
\* an absent, empty or unparseable amount makes paid_amount 0 and adds no
\* error, so the batch (valid row, unparseable date, valid date with garbage
\* amount) gives 2 records, the second with amount 0, and 1 error for row 2.
C16_AmountNeverRejects ==
  /\ \A j \in 1..idx :
       HasGoodDate(data[j]) =>
         /\ j \notin ErrorRows
         /\ \E k \in 1..Len(srcrow) :
              /\ srcrow[k] = j
              /\ AmountCellOf(data[j]) \in {None, Some(RNone), Some(RNaN), Some(RStr(S_garbage))}
                   => normalized[k].paid_amount = <<0, 1>>
  /\ (ipc = "done" /\ data = <<RowValid, RowBadDate, RowGarbageAmount>>)
       => /\ Len(normalized) = 2
          /\ normalized[1].paid_amount = <<30864, 25>>
          /\ normalized[2].paid_amount = <<0, 1>>
          /\ ErrorRows = {2}
          /\ Len(errors) = 1

\* ---------------------------------------------- properties of the parsers
\* C17: the ISO text, the day-first slash text, the day-first dot text and
\* the spreadsheet serial number (days since 1899-12-30, as a number or as
\* digits) of one calendar day all parse to that day; "03/04/2024" is
\* 3 April 2024, as are "2024-04-03", "03.04.2024" and serial 45385.
C17_NotationsAgree ==
  (ppc = "done" /\ pin.fn = "date") =>
    /\ pin.cls = "day" => date_out = Some(pin.day)
    /\ pin.raw \in {RStr(S_iso), RStr(S_slash), RStr(S_dot), RNum(45385)}
         => date_out = Some(<<2024, 4, 3>>)

C17_Witness ==
  /\ ppc = "done"
  /\ pin.raw = RStr(S_slash)
  /\ pin.day = <<2024, 4, 3>>
  /\ date_out = Some(<<2024, 4, 3>>)

\* C18: an amount text with ',' before its decimals, with or without '.'
\* between its groups of thousands, parses to the number it denotes
\* ("1.234,56" and "1234,56" to 1234.56); None, the empty text and text that
\* is no number parse to 0.
C18_LocaleAmounts ==
  (ppc = "done" /\ pin.fn = "amount") =>
    /\ (pin.cls = "locale" /\ pin.decimal) => amount_out = pin.denotes
    /\ pin.raw \in {RStr(S_1234_56_tr), RStr(S_1234_56_comma)} => amount_out = <<30864, 25>>
    /\ pin.cls \in {"null", "empty", "unparseable"} => amount_out = <<0, 1>>
    /\ pin.raw \in {RNone, RStr(<<>>), RStr(S_garbage)} => amount_out = <<0, 1>>

C18_Witness ==
  /\ ppc = "done"
  /\ pin.raw = RStr(S_1234_56_tr)
  /\ pin.grouped
  /\ amount_out = <<30864, 25>>

\* the lengths of the months of year y
MonthLengths(y) ==
  <<31, IF (y % 4 = 0 /\ y % 100 # 0) \/ y % 400 = 0 THEN 29 ELSE 28,
    31, 30, 31, 30, 31, 31, 30, 31, 30, 31>>
RealDay(y, m, d) == y >= 1 /\ m \in 1..12 /\ d >= 1 /\ d <= MonthLengths(y)[m]
\* the years a number can stand for: itself, or a two-digit year
YearReadings(v) ==
  {v} \cup (IF v < 69 THEN {2000 + v} ELSE IF v < 100 THEN {1900 + v} ELSE {})
\* three numbers and two separators that some day-first or year-first
\* reading turns into a calendar day
MaybeDate(parts) ==
  /\ parts.seps[1] = parts.seps[2]
  /\ \/ \E y \in YearReadings(parts.v[3]) : RealDay(y, parts.v[2], parts.v[1])
     \/ RealDay(parts.v[1], parts.v[2], parts.v[3])

\* C19: None, the empty text, "nan" and "none" in any letter case, text with
\* letters in it ("not-a-date") and three numbers that no supported reading
\* turns into a calendar day all parse to no date.
C19_NoDateForNonDates ==
  (ppc = "done" /\ pin.fn = "date") =>
    /\ pin.cls \in {"null", "empty", "token", "words"} => date_out = None
    /\ (pin.cls = "three_part" /\ ~MaybeDate(pin.parts)) => date_out = None

C19_Witness ==
  /\ ppc = "done"
  /\ pin.raw = RStr(S_notadate)
  /\ date_out = None

\* ---------------------------------------------------------- the resolver
\* C20: a call that took its rate from a prior business day (the date used
\* differs from target_date) writes no row, for either date; every row that
\* appears in the store carries the target_date of the call that wrote it.
C20_NoRowForPriorDay ==
  [][/\ \A p \in Procs :
          (proc[p].pc = "persist" /\ proc[p].current_date # proc[p].target_date
             /\ proc'[p] # proc[p])
          => store' = store
     /\ \A rec \in store' \ store :
          \E p \in Procs :
            /\ proc[p].pc = "persist"
            /\ proc'[p] # proc[p]
            /\ rec.date = proc[p].target_date]_vars

C20_Witness ==
  \E p \in Procs :
    /\ proc[p].pc = "done"
    /\ proc[p].db_session
    /\ ~proc[p].from_store
    /\ proc[p].current_date # proc[p].target_date
    /\ ~HasRow(store, proc[p].target_date)
    /\ ~HasRow(store, proc[p].current_date)

\* d1 is the latest Monday-to-Friday day strictly before d0
LatestWeekdayBefore(d1, d0) ==
  /\ d1 < d0
  /\ d1 % 7 \in 0..4
  /\ \A e \in (d1 + 1)..(d0 - 1) : e % 7 \in {5, 6}

\* p is inside a call
Running(p) == proc[p].pc \in {"lookup", "fetch", "request", "persist"}

\* C21: one call makes at most 6 fetch attempts, the first for target_date
\* and each further one for the latest Monday-to-Friday day strictly before
\* the day of the attempt before it; an attempt is made only while no rate
\* has been obtained, so the cascade stops at the first rate; and every call
\* that has started comes to an end.
C21_CascadeBoundedAndTerminates ==
  /\ [](\A p \in Procs :
          /\ proc[p].cache_reads <= 6
          /\ proc[p].requests <= 6
          /\ proc[p].attempts <= 5
          /\ proc[p].pc \in {"fetch", "request"} => proc[p].rate = None
          /\ (proc[p].pc = "fetch" /\ proc[p].cache_reads = 0)
               => proc[p].current_date = proc[p].target_date)
  /\ [][\A p \in Procs :
          (proc[p].pc \in {"fetch", "request"} /\ proc'[p].pc = "fetch"
             /\ proc'[p] # proc[p])
          => LatestWeekdayBefore(proc'[p].current_date, proc[p].current_date)]_vars
  /\ \A p \in Procs : Running(p) ~> ~Running(p)

C21_Witness ==
  \E p \in Procs :
    /\ proc[p].pc = "done"
    /\ proc[p].cache_reads = 6
    /\ ~proc[p].fell_back
    /\ proc[p].current_date # proc[p].target_date

\* p's resolver ran with a store that had no row for target_date, and its
\* fetch for target_date itself gave the rate
FirstFetchGaveRate(q) ==
  /\ q.db_session
  /\ ~q.from_store
  /\ ~q.in_loop
  /\ ~q.fell_back

\* C22: with a store and no record for target_date, when the fetch for
\* target_date itself succeeds, the store holds, at the step in which the
\* resolver returns, a row dated target_date whose rate is the returned rate.
C22_TargetRatePersistedAtReturn ==
  [][\A p \in Procs :
       (proc[p].result = None /\ proc'[p].result # None
          /\ FirstFetchGaveRate(proc'[p]))
       => \E rec \in store' :
            /\ rec.date = proc'[p].target_date
            /\ rec.usd_to_tl = Val(proc'[p].result)[1]]_vars

C22_Witness ==
  \E p \in Procs :
    /\ proc[p].pc = "done"
    /\ FirstFetchGaveRate(proc[p])
    /\ proc[p].requests = 1
    /\ Val(proc[p].result)[2] = proc[p].target_date
    /\ \E rec \in store :
         rec.date = proc[p].target_date /\ rec.usd_to_tl = Val(proc[p].result)[1]

\* C23: a fetch asks the cache before the remote: a date that is in the
\* cache when it is asked is answered with the cached rate and no request,
\* and every request follows a cache miss of the same fetch.  The cache
\* changes only in a step that is a successful request, which sets the entry
\* of the requested date to the fetched rate and no other; a failed request
\* and the default rate leave the cache as it was.
C23_CacheBeforeRemoteWrittenOnSuccess ==
  /\ [](\A p \in Procs :
          /\ proc[p].requests <= proc[p].cache_reads
          /\ proc[p].pc = "request"
               => proc[p].cache_reads = proc[p].requests + 1)
  /\ [][\A p \in Procs :
          (proc[p].pc = "fetch" /\ proc'[p] # proc[p]
             /\ cache[proc[p].current_date] # None)
          => /\ proc'[p].requests = proc[p].requests
             /\ proc'[p].pc # "request"
             /\ proc'[p].rate = cache[proc[p].current_date]
             /\ cache' = cache]_vars
  /\ [][cache' # cache
          => \E p \in Procs :
               /\ proc[p].pc = "request"
               /\ proc'[p].requests = proc[p].requests + 1
               /\ ~proc'[p].fell_back
               /\ proc'[p].rate = Some(TcmbForexBuying(proc[p].current_date))
               /\ cache' = [cache EXCEPT ![proc[p].current_date] = proc'[p].rate]]_vars
  /\ [][\A p \in Procs :
          (proc[p].pc = "request" /\ proc'[p] # proc[p]
             /\ (proc'[p].rate = None \/ proc'[p].fell_back))
          => cache' = cache]_vars

C23_Witness ==
  \E p \in Procs :
    /\ proc[p].pc = "done"
    /\ ~proc[p].from_store
    /\ proc[p].cache_reads = 1
    /\ proc[p].requests = 0
    /\ cache[proc[p].target_date] = Some(Val(proc[p].result)[1])

\* every cache entry holds the remote's rate of its own date
CacheHoldsRemoteRate ==
  \A d \in Days : cache[d] \in {None, Some(TcmbForexBuying(d))}

\* p's call went past the store and its fetch of target_date gave a rate
FetchedTarget(q) ==
  /\ q.pc \in {"persist", "done", "raised"}
  /\ ~q.from_store
  /\ ~q.in_loop
  /\ ~q.fell_back

\* C24: whatever the interleaving of calls for one uncached date, every call
\* whose fetch of that date was answered returns the remote's rate of the
\* date, the cache maps the date to that rate, and no cache entry holds the
\* rate of another date.
C24_ConcurrentFetchesAgree ==
  /\ CacheHoldsRemoteRate
  /\ \A p \in Procs :
       FetchedTarget(proc[p])
       => /\ proc[p].rate = Some(TcmbForexBuying(proc[p].target_date))
          /\ cache[proc[p].target_date] = proc[p].rate
          /\ proc[p].pc \in {"done", "raised"}
               => proc[p].result = Some(<<Val(proc[p].rate), proc[p].target_date>>)

\* s has the character c
HasChar(s, c) == \E i \in 1..Len(s) : s[i] = c

\* C25: a text amount with '.' and without ',' keeps its '.' as the decimal
\* point, so "1234.56" is parsed to 1234.56 (30864/25).
C25_DotAloneIsDecimalPoint ==
  (ppc = "done" /\ pin.fn = "amount" /\ pin.raw.t = "str"
     /\ HasChar(pin.raw.s, ".") /\ ~HasChar(pin.raw.s, ",") /\ pin.decimal)
  => /\ amount_out = pin.denotes
     /\ pin.raw.s = S_1234_56_dot => amount_out = <<30864, 25>>

\* C26: when the import has answered, every normalized record was handed to
\* the converter and, the converter not having failed, saved as one payment
\* row: the count of saved records is the count of normalized records.
C26_NormalizedRecordsAreSaved ==
  (pay.pc = "responded" /\ \A i \in 1..Len(pay.save_errors) :
                             pay.save_errors[i].error \notin {"ZeroDivisionError", "IntegrityError"})
  => /\ pay.records_imported = Len(normalized)
     /\ pay.converter_calls = Len(normalized)
     /\ Len(payments) = Len(normalized)

\* the latest call made with a store for q's target date had returned the
\* default rate, which is not what the remote publishes for that date
AfterFallback(q) ==
  /\ q.db_session
  /\ q.prev = Some(<<DefaultRate, q.target_date>>)
  /\ TcmbForexBuying(q.target_date) # DefaultRate

\* C27: a call made with a store for a date whose earlier call had fallen
\* back to the default rate, and which itself meets no failure of the remote
\* for that date, returns the remote's rate of the date, not the default.
C27_FallbackNotPermanent ==
  \A p \in Procs :
    (proc[p].pc = "done" /\ AfterFallback(proc[p])
       /\ ~proc[p].in_loop /\ ~proc[p].fell_back)
    => Val(proc[p].result)[1] = TcmbForexBuying(proc[p].target_date)

\* C28: a date that has a row in the store and an entry in the cache has the
\* same rate in both.
C28_StoreAndCacheAgree ==
  \A rec \in store :
    cache[rec.date] # None => cache[rec.date] = Some(rec.usd_to_tl)

\* the n Monday-to-Friday days immediately before day t
BusinessDaysBefore(t, n) ==
  {e \in Days : /\ e < t
                /\ e % 7 \in 0..4
                /\ Cardinality({x \in (e + 1)..(t - 1) : x % 7 \in 0..4}) < n}

\* C29: the date returned with the rate is never after target_date; when it
\* is another date, it is one of the 5 business days immediately before
\* target_date and the rate is what the remote publishes for that date.
C29_EffectiveDateBounded ==
  \A p \in Procs :
    proc[p].result # None
    => LET rate == Val(proc[p].result)[1]
           effective_date == Val(proc[p].result)[2]
       IN /\ effective_date <= proc[p].target_date
          /\ effective_date # proc[p].target_date
               => /\ effective_date \in BusinessDaysBefore(proc[p].target_date, 5)
                  /\ rate = TcmbForexBuying(effective_date)

C29_Witness ==
  \E p \in Procs :
    /\ proc[p].pc = "done"
    /\ proc[p].attempts = 5
    /\ Val(proc[p].result)[2] < proc[p].target_date
    /\ Cardinality(BusinessDaysBefore(proc[p].target_date, 5)) = 5
    /\ \A e \in BusinessDaysBefore(proc[p].target_date, 5) : Val(proc[p].result)[2] <= e

\* C30: every stored payment has amount_usd = amount_tl / exchange_rate, and
\* its exchange_rate is the rate the resolver returned, in the latest
\* conversion made for it, for the payment_date it now has.
C30_PaymentAmountsConsistent ==
  \A i \in 1..Len(payments) :
    /\ payments[i].exchange_rate # 0
    /\ payments[i].amount_usd = Divide(payments[i].amount_tl, payments[i].exchange_rate)
    /\ resolved[i] = <<payments[i].exchange_rate, payments[i].payment_date>>

====
